---------------------------- MODULE Spec2Model ----------------------------
(***************************************************************************)
(* Model of the ZHS tennis-court crawler: the poll loop of                 *)
(* src/src/zhs_crawler/zhs.py (Zhs.crawl_zhs / Zhs.run_court_search), the  *)
(* page reduction (filter_all_available_courts, filter_relevant_courts),   *)
(* the notification (compose_message, send_email) and the Selenium booking *)
(* script of src/src/book_court.py (BookTennisCourt.book_tennis_court).    *)
(*                                                                         *)
(* Text is modelled structurally:                                          *)
(*   - a clock string "HH:MM" is the tuple of its four digits;             *)
(*   - a cell label "HH:MM - HH:MM" is the pair of its two clock strings;  *)
(*   - a court header "Court N" is the number N;                           *)
(*   - a DataFrame is the sequence of its rows, None is the empty tuple;   *)
(*   - a dict is the sequence of its <<key, value>> items in insertion     *)
(*     order.                                                              *)
(***************************************************************************)
EXTENDS Integers, Sequences, FiniteSets, TLC

(***************************************************************************)
(* Bounds of the model.                                                    *)
(***************************************************************************)
\* poll rounds (ticks) one invocation is followed for
MaxRounds == 2
\* half-hour cells in a court's row of the scraped grid
GridCells == 2

(***************************************************************************)
(* Program constants.                                                      *)
(***************************************************************************)
\* range(2, 5): first page crawled and the exclusive end of the range
FirstPage == 2
PageEnd == 5
\* cli.py --interval: default and minimum
DefaultInterval == 60
MinInterval == 5

None == <<>>

(***************************************************************************)
(* Clock strings.                                                          *)
(***************************************************************************)
\* the string "HH:MM" of hour h and minute m
Clock(h, m) == <<h \div 10, h % 10, m \div 10, m % 10>>

\* datetime.datetime.strptime(s, "%H:%M")
strptime(s) == [hour |-> 10 * s[1] + s[2], minute |-> 10 * s[3] + s[4]]

\* dt + relativedelta(hours=1), of which only the time of day is printed
PlusOneHour(dt) == [hour |-> (dt.hour + 1) % 24, minute |-> dt.minute]

\* dt.strftime("%H:%M")
strftime(dt) == Clock(dt.hour, dt.minute)

\* x[:2] followed by astype(int)
HourPrefix(x) == 10 * x[1] + x[2]

(***************************************************************************)
(* Dicts in insertion order.                                               *)
(***************************************************************************)
\* a slip in the dict: every assignment adds an entry, as in a list of pairs
DictSet_append(d, k, v) == Append(d, <<k, v>>)

\* d[k] = v: a new key is appended, an existing key keeps its position
DictSet(d, k, v) ==
    IF \E i \in DOMAIN d : d[i][1] = k
    THEN [i \in DOMAIN d |-> IF d[i][1] = k THEN <<k, v>> ELSE d[i]]
    ELSE Append(d, <<k, v>>)

(***************************************************************************)
(* Zhs.filter_all_available_courts                                         *)
(***************************************************************************)
\* court.find_all(name="td", attrs={"class": "avaliable"}) and the text of
\* each cell's link, in document order
AvailableLabels(cells) ==
    LET avail == SelectSeq(cells, LAMBDA c : c.avail)
    IN  [i \in 1..Len(avail) |-> avail[i].label]

\* the loop over court_periods filling result[court_number]
RECURSIVE ScrapeTables(_, _)
ScrapeTables(tables, result) ==
    IF tables = <<>> THEN result
    ELSE ScrapeTables(Tail(tables),
                      DictSet(result, Head(tables).court,
                              AvailableLabels(Head(tables).cells)))

\* a slip in the reconciler: the end is the scraped end of the label
EvenSlots_scrapedEnd(times) ==
    [j \in 1..((Len(times) + 1) \div 2) |->
        <<times[2 * j - 1][1], times[2 * j - 1][2]>>]

\* a slip in the reconciler: the test `i % 2 == 0` is missing, every label
\* starts an hour slot
EvenSlots_everyLabel(times) ==
    [j \in 1..Len(times) |->
        <<times[j][1], strftime(PlusOneHour(strptime(times[j][1])))>>]

\* the hour slots of one court: every even-indexed (0-based) label's start,
\* with the end computed as start + 1 hour
EvenSlots(times) ==
    [j \in 1..((Len(times) + 1) \div 2) |->
        LET start == times[2 * j - 1][1]
        IN  <<start, strftime(PlusOneHour(strptime(start)))>>]

\* the loop over filtered.items() filling fixed_times[court_int]
RECURSIVE FixTimes(_, _)
FixTimes(filtered, fixed) ==
    IF filtered = <<>> THEN fixed
    ELSE FixTimes(Tail(filtered),
                  DictSet(fixed, Head(filtered)[1], EvenSlots(Head(filtered)[2])))

\* whether page_content.find(id="main-content-tabs").find("table", "allarea")
\* finds the availability table; without it the method raises AttributeError
HasStructure(page_content) == page_content.structure

filter_all_available_courts(page_content) ==
    LET result == ScrapeTables(page_content.tables, <<>>)
        filtered == SelectSeq(result, LAMBDA kv : Len(kv[2]) > 0)
    IN  FixTimes(filtered, <<>>)

(***************************************************************************)
(* Zhs.filter_relevant_courts                                              *)
(***************************************************************************)
\* the rows appended to construct_df
RECURSIVE ConstructDf(_, _)
ConstructDf(d, available_courts) ==
    IF available_courts = <<>> THEN <<>>
    ELSE LET court_num == Head(available_courts)[1]
             times == Head(available_courts)[2]
         IN  [i \in 1..Len(times) |->
                 [date |-> d, court |-> court_num,
                  start_time |-> times[i][1], end_time |-> times[i][2]]]
             \o ConstructDf(d, Tail(available_courts))

\* a slip in the mask: the end hour is compared with < instead of <=
InWindow_strictEnd(row, sh, eh) ==
    /\ HourPrefix(row.start_time) >= sh
    /\ HourPrefix(row.end_time) < eh

\* the boolean mask of courts_df.loc[...]
InWindow(row, sh, eh) ==
    /\ HourPrefix(row.start_time) >= sh
    /\ HourPrefix(row.end_time) <= eh

filter_relevant_courts(d, sh, eh, available_courts) ==
    SelectSeq(ConstructDf(d, available_courts), LAMBDA row : InWindow(row, sh, eh))

(***************************************************************************)
(* Zhs.compose_message / Zhs.send_email                                    *)
(***************************************************************************)
\* the truth value Python gives `if booked_court:`: None is false, a
\* DataFrame has no truth value (DataFrame.__bool__ raises ValueError)
TruthValue(booked) == IF booked = None THEN "False" ELSE "ValueError"

\* the lines "  -> Court {court}: {start} - {end}"
Listing(relevant_courts) ==
    [i \in 1..Len(relevant_courts) |->
        [court |-> relevant_courts[i].court,
         start |-> relevant_courts[i].start_time,
         end |-> relevant_courts[i].end_time]]

\* the line "Court number {court} was booked on {date} at {start_time}!"
SummaryLine(booked) ==
    [court |-> booked[1].court, date |-> booked[1].date,
     start_time |-> booked[1].start_time]

\* the composed text: greeting, summary line (if any), overview header and
\* one line per relevant court
compose_message(me, booked, relevant_courts) ==
    [greeting |-> "Dear Roger",
     summary |-> IF TruthValue(booked) = "True"
                 THEN <<SummaryLine(booked)>> ELSE <<>>,
     overview |-> [date |-> me.date, start_hour |-> me.start_hour,
                   end_hour |-> me.end_hour],
     listing |-> Listing(relevant_courts)]

\* the exception compose_message raises, "" if none
compose_raises(booked) ==
    IF TruthValue(booked) \in {"True", "False"} THEN "" ELSE TruthValue(booked)

\* the MIME message handed to session.sendmail
Email(me, body) ==
    [from |-> "SENDER_EMAIL", to |-> me.receiver_email,
     subject |-> "Court Alert! Court's Booked!", body |-> body]

(***************************************************************************)
(* book_court.py                                                           *)
(***************************************************************************)
COURT_PAGE_MAPPER ==
    (2 :> 2) @@ (3 :> 2) @@ (4 :> 2) @@ (5 :> 2) @@
    (6 :> 3) @@ (7 :> 3) @@ (8 :> 3) @@ (9 :> 3) @@
    (10 :> 3) @@ (11 :> 3) @@ (12 :> 3) @@ (13 :> 3) @@
    (14 :> 4) @@ (15 :> 4) @@ (16 :> 4) @@ (17 :> 4)

\* a slip in the table: the ordinals run on from group to group instead of
\* starting again at 1 (court 6 is the 5th button, ..., court 17 the 16th)
MAP_COURT_TO_XPATH_running ==
    [r \in 2..17 |-> r - 1]

MAP_COURT_TO_XPATH ==
    (2 :> 1) @@ (3 :> 2) @@ (4 :> 3) @@ (5 :> 4) @@
    (6 :> 1) @@ (7 :> 2) @@ (8 :> 3) @@ (9 :> 4) @@
    (10 :> 5) @@ (11 :> 6) @@ (12 :> 7) @@ (13 :> 8) @@
    (14 :> 1) @@ (15 :> 2) @@ (16 :> 3) @@ (17 :> 4)

\* one call on the Selenium driver
DriverCall(op, target, n, t, text) ==
    [op |-> op, target |-> target, n |-> n, t |-> t, text |-> text]

\* the targets of the driver calls of book_tennis_court, in program order
ScriptTargets ==
    <<"reservations.php", "id=login_block", "id=login", "id=password",
      "xpath=respond1/submit", "xpath=button_apply", "xpath=pager-block/div[n]",
      "id=order_el_{court}_{start}", "xpath=table/td[n]/form/div/input",
      "xpath=article/div/form/div/input", "quit">>

\* whether the k-th call's argument indexes a lookup table with court_number
\* (a court that is no key raises KeyError while the argument is built)
LooksUp(k, court_number) ==
    \/ /\ ScriptTargets[k] = "xpath=pager-block/div[n]"
       /\ court_number \notin DOMAIN COURT_PAGE_MAPPER
    \/ /\ ScriptTargets[k] = "xpath=table/td[n]/form/div/input"
       /\ court_number \notin DOMAIN MAP_COURT_TO_XPATH

\* a slip in the script: the final "Bestaetigen" click is issued before the
\* click on the court's "Buchung" button
book_tennis_court_swapped(k, d, court_number, start_time) ==
    CASE k = 1 -> DriverCall("get", ScriptTargets[1], 1, <<>>, d)
      [] k = 2 -> DriverCall("click", ScriptTargets[2], 0, <<>>, "")
      [] k = 3 -> DriverCall("send_keys", ScriptTargets[3], 0, <<>>, "LOGIN_NAME")
      [] k = 4 -> DriverCall("send_keys", ScriptTargets[4], 0, <<>>, "LOGIN_PASSWORD")
      [] k = 5 -> DriverCall("click", ScriptTargets[5], 0, <<>>, "")
      [] k = 6 -> DriverCall("click", ScriptTargets[6], 0, <<>>, "")
      [] k = 7 -> DriverCall("click", ScriptTargets[7],
                             COURT_PAGE_MAPPER[court_number], <<>>, "")
      [] k = 8 -> DriverCall("click", ScriptTargets[8], court_number, start_time, "")
      [] k = 9 -> DriverCall("click", ScriptTargets[10], 0, <<>>, "")
      [] k = 10 -> DriverCall("click", ScriptTargets[9],
                              MAP_COURT_TO_XPATH[court_number], <<>>, "")
      [] OTHER -> DriverCall("quit", ScriptTargets[11], 0, <<>>, "")

\* the k-th driver call of book_tennis_court(date, court_number, start_time)
book_tennis_court(k, d, court_number, start_time) ==
    CASE k = 1 -> DriverCall("get", ScriptTargets[1], 1, <<>>, d)
      [] k = 2 -> DriverCall("click", ScriptTargets[2], 0, <<>>, "")
      [] k = 3 -> DriverCall("send_keys", ScriptTargets[3], 0, <<>>, "LOGIN_NAME")
      [] k = 4 -> DriverCall("send_keys", ScriptTargets[4], 0, <<>>, "LOGIN_PASSWORD")
      [] k = 5 -> DriverCall("click", ScriptTargets[5], 0, <<>>, "")
      [] k = 6 -> DriverCall("click", ScriptTargets[6], 0, <<>>, "")
      [] k = 7 -> DriverCall("click", ScriptTargets[7],
                             COURT_PAGE_MAPPER[court_number], <<>>, "")
      [] k = 8 -> DriverCall("click", ScriptTargets[8], court_number, start_time, "")
      [] k = 9 -> DriverCall("click", ScriptTargets[9],
                             MAP_COURT_TO_XPATH[court_number], <<>>, "")
      [] k = 10 -> DriverCall("click", ScriptTargets[10], 0, <<>>, "")
      [] OTHER -> DriverCall("quit", ScriptTargets[11], 0, <<>>, "")

(***************************************************************************)
(* Zhs.run_court_search / Zhs.crawl_zhs                                    *)
(***************************************************************************)
\* a slip in the accumulation: the page's frame replaces the accumulated one
concat_overwrite(frame, other) == other

\* pd.concat([frame, other])
concat(frame, other) == frame \o other

\* a slip in the selector: sample(2) where the frame has two rows or more
sample_two(df) ==
    IF Len(df) < 2 THEN {<<df[i]>> : i \in 1..Len(df)}
    ELSE {<<df[q[1]], df[q[2]]>> :
             q \in {r \in (1..Len(df)) \X (1..Len(df)) : r[1] # r[2]}}

\* all_relevant_courts.sample(1): the frames of one row it can return
sample(df) == {<<df[i]>> : i \in 1..Len(df)}

\* a slip in the test: one relevant court is not enough
FoundCourts_moreThanOne(df) == Len(df) > 1

\* `if all_relevant_courts.shape[0]:`
FoundCourts(df) == Len(df) # 0

\* a slip in the test: the flag is not consulted
ShouldBook_always(me) == TRUE

\* `if self.book_court:`
ShouldBook(me) == me.book_court

\* a catch-all around run_court_search in the loop of crawl_zhs: the
\* exception is swallowed and the loop sleeps and polls again
Propagate_swallowed(exc) == [pc |-> "sleep", uncaught |-> ""]

\* an exception no frame of run_court_search, crawl_zhs or cli handles: the
\* interpreter prints the traceback and the process ends
Propagate(exc) == [pc |-> "crashed", uncaught |-> exc]

(***************************************************************************)
(* What the booking site can serve.                                        *)
(***************************************************************************)
\* minutes after midnight at which the scraped grid's first cell starts
GridOrigin == 19 * 60

\* the label "HH:MM - HH:MM" of the k-th half-hour cell of a row
CellLabel(k) ==
    LET s == GridOrigin + 30 * (k - 1)
        e == s + 30
    IN  <<Clock(s \div 60, s % 60), Clock((e \div 60) % 24, e % 60)>>

\* court headers the site may show: one that is no key of the lookup tables
\* and one that is
CourtLabels == {1, 7, 14}

\* a court's table: its header and its row of cells, free ("avaliable") or not
CourtTables ==
    {[court |-> c, cells |-> [k \in 1..GridCells |-> [avail |-> a[k], label |-> CellLabel(k)]]] :
        c \in CourtLabels, a \in [1..GridCells -> BOOLEAN]}

\* the documents requests.get can return: without the availability table
\* (the layout changed), or with the tables of the page's courts
Pages ==
    {[structure |-> FALSE, tables |-> <<>>], [structure |-> TRUE, tables |-> <<>>]}
    \cup {[structure |-> TRUE, tables |-> <<t>>] : t \in CourtTables}

\* the validated command line: --time-window a b with a < b, --interval,
\* --book-court
Configs ==
    {[date |-> "2021-07-27", start_hour |-> w[1], end_hour |-> w[2],
      receiver_email |-> "hi@bye.com", interval |-> i, book_court |-> b] :
        w \in {<<18, 19>>, <<19, 20>>},
        i \in {MinInterval, DefaultInterval},
        b \in BOOLEAN}

(***************************************************************************)
(* State.                                                                  *)
(***************************************************************************)
VARIABLES
    self,                 \* the Zhs object's fields
    pc,                   \* where crawl_zhs is: crawl, decide, book, notify,
                          \* sleep, done (returned), crashed (exception)
    tick,                 \* number of the current call of run_court_search
    page,                 \* the loop variable of run_court_search
    all_relevant_courts,  \* the frame accumulated this round
    booked_court,         \* None, or the sampled frame
    found_a_court,        \* the loop variable of crawl_zhs
    step,                 \* next driver call of book_tennis_court
    driver,               \* the driver calls that completed, in order
    bookCalls,            \* the arguments of each call of book_tennis_court
    composed,             \* the texts compose_message returned
    outbox,               \* the emails handed to the SMTP session
    sleeps,               \* the durations crawl_zhs slept
    roundSizes,           \* all_relevant_courts.shape[0] of each finished round
    uncaught              \* the exception that ended the process, "" if none

\* the locals of run_court_search and of the command line, followed only by
\* the specifications of one page, of one round and of the command line
VARIABLES
    content,              \* the document crawl_page returned
    available_courts,     \* what filter_all_available_courts returned
    relevant_courts,      \* what filter_relevant_courts returned
    roundRows,            \* the hour slots of the round's pages so far, as
                          \* rows, unfiltered, in page order
    seenCourts,           \* the court headers of the round's pages so far
    crossPage,            \* whether a header was on two pages of the round
    samePage,             \* whether a header was twice on one page of the round
    cli                   \* the command line and the clock it is run at

aux ==
    <<content, available_courts, relevant_courts, roundRows, seenCourts,
      crossPage, samePage, cli>>

vars ==
    <<self, pc, tick, page, all_relevant_courts, booked_court, found_a_court,
      step, driver, bookCalls, composed, outbox, sleeps, roundSizes, uncaught,
      content, available_courts, relevant_courts, roundRows, seenCourts,
      crossPage, samePage, cli>>

\* the values of the variables a specification does not follow
AuxIdle ==
    /\ content = <<>>
    /\ available_courts = <<>>
    /\ relevant_courts = <<>>
    /\ roundRows = <<>>
    /\ seenCourts = {}
    /\ crossPage = FALSE
    /\ samePage = FALSE
    /\ cli = <<>>

Init ==
    /\ self \in Configs
    /\ pc = "crawl"
    /\ tick = 1
    /\ page = FirstPage
    /\ all_relevant_courts = <<>>
    /\ booked_court = None
    /\ found_a_court = FALSE
    /\ step = 1
    /\ driver = <<>>
    /\ bookCalls = <<>>
    /\ composed = <<>>
    /\ outbox = <<>>
    /\ sleeps = <<>>
    /\ roundSizes = <<>>
    /\ uncaught = ""
    /\ AuxIdle

\* exception exc leaves the frame that raised it
Raise(exc) ==
    /\ pc' = Propagate(exc).pc
    /\ uncaught' = Propagate(exc).uncaught

(***************************************************************************)
(* One iteration of `for page in range(2, 5)`.                             *)
(***************************************************************************)
\* the page is fetched and reduced, its relevant courts are concatenated
CrawlPage ==
    /\ pc = "crawl"
    /\ \E document \in Pages :
          /\ HasStructure(document)
          /\ all_relevant_courts' =
                concat(all_relevant_courts,
                       filter_relevant_courts(self.date, self.start_hour,
                                              self.end_hour,
                                              filter_all_available_courts(document)))
    /\ page' = page + 1
    /\ pc' = IF page' = PageEnd THEN "decide" ELSE "crawl"
    /\ UNCHANGED <<self, roundSizes, tick, booked_court, found_a_court,
                   step, driver, bookCalls, composed, outbox, sleeps,
                   uncaught>>
    /\ UNCHANGED aux

\* requests.get raises (connection failure, timeout)
CrawlFetchError ==
    /\ pc = "crawl"
    /\ Raise("ConnectionError")
    /\ UNCHANGED <<self, roundSizes, tick, page, all_relevant_courts,
                   booked_court, found_a_court, step, driver, bookCalls,
                   composed, outbox, sleeps>>
    /\ UNCHANGED aux

\* the document lacks the availability table: find returns None and the
\* next .find raises AttributeError
CrawlParseError ==
    /\ pc = "crawl"
    /\ \E document \in Pages : ~HasStructure(document)
    /\ Raise("AttributeError")
    /\ UNCHANGED <<self, roundSizes, tick, page, all_relevant_courts,
                   booked_court, found_a_court, step, driver, bookCalls,
                   composed, outbox, sleeps>>
    /\ UNCHANGED aux

(***************************************************************************)
(* After the loop: `if all_relevant_courts.shape[0]:`                      *)
(***************************************************************************)
\* no relevant court: run_court_search returns False
RoundEmpty ==
    /\ pc = "decide"
    /\ ~FoundCourts(all_relevant_courts)
    /\ found_a_court' = FALSE
    /\ pc' = "sleep"
    /\ roundSizes' = Append(roundSizes, Len(all_relevant_courts))
    /\ UNCHANGED <<self, tick, page, all_relevant_courts, booked_court,
                   step, driver, bookCalls, composed, outbox, sleeps,
                   uncaught>>
    /\ UNCHANGED aux

\* relevant courts and --book-court: one row is sampled and
\* book_tennis_court is called with its date, court and start time
SelectSlot ==
    /\ pc = "decide"
    /\ FoundCourts(all_relevant_courts)
    /\ ShouldBook(self)
    /\ \E chosen \in sample(all_relevant_courts) :
          /\ booked_court' = chosen
          /\ bookCalls' = Append(bookCalls,
                                 [date |-> chosen[1].date,
                                  court_number |-> chosen[1].court,
                                  start_time |-> chosen[1].start_time])
    /\ step' = 1
    /\ pc' = "book"
    /\ roundSizes' = Append(roundSizes, Len(all_relevant_courts))
    /\ UNCHANGED <<self, tick, page, all_relevant_courts, found_a_court,
                   driver, composed, outbox, sleeps, uncaught>>
    /\ UNCHANGED aux

\* relevant courts and no --book-court: booked_court stays None
SkipBooking ==
    /\ pc = "decide"
    /\ FoundCourts(all_relevant_courts)
    /\ ~ShouldBook(self)
    /\ booked_court' = None
    /\ pc' = "notify"
    /\ roundSizes' = Append(roundSizes, Len(all_relevant_courts))
    /\ UNCHANGED <<self, tick, page, all_relevant_courts, found_a_court,
                   step, driver, bookCalls, composed, outbox, sleeps,
                   uncaught>>
    /\ UNCHANGED aux

(***************************************************************************)
(* BookTennisCourt.book_tennis_court, one driver call at a time.           *)
(***************************************************************************)
\* the arguments of the call in progress
Request == bookCalls[Len(bookCalls)]

\* the next driver call completes
BookStep ==
    /\ pc = "book"
    /\ ~LooksUp(step, Request.court_number)
    /\ driver' = Append(driver,
                        book_tennis_court(step, Request.date,
                                          Request.court_number, Request.start_time))
    /\ step' = step + 1
    /\ pc' = IF step = Len(ScriptTargets) THEN "notify" ELSE "book"
    /\ UNCHANGED <<self, roundSizes, tick, page, all_relevant_courts,
                   booked_court, found_a_court, bookCalls, composed, outbox,
                   sleeps, uncaught>>
    /\ UNCHANGED aux

\* the next driver call raises (no such element, timeout, browser gone)
BookStepFails ==
    /\ pc = "book"
    /\ ~LooksUp(step, Request.court_number)
    /\ Raise("WebDriverException")
    /\ UNCHANGED <<self, roundSizes, tick, page, all_relevant_courts,
                   booked_court, found_a_court, step, driver, bookCalls,
                   composed, outbox, sleeps>>
    /\ UNCHANGED aux

\* the court is no key of the lookup table the next call's locator indexes
BookKeyError ==
    /\ pc = "book"
    /\ LooksUp(step, Request.court_number)
    /\ Raise("KeyError")
    /\ UNCHANGED <<self, roundSizes, tick, page, all_relevant_courts,
                   booked_court, found_a_court, step, driver, bookCalls,
                   composed, outbox, sleeps>>
    /\ UNCHANGED aux

(***************************************************************************)
(* Zhs.send_email, then `return True`.                                     *)
(***************************************************************************)
\* the message is composed and sent; run_court_search returns True and the
\* loop of crawl_zhs ends
Notify ==
    /\ pc = "notify"
    /\ compose_raises(booked_court) = ""
    /\ LET body == compose_message(self, booked_court, all_relevant_courts)
       IN  /\ composed' = Append(composed, body)
           /\ outbox' = Append(outbox, Email(self, body))
    /\ found_a_court' = TRUE
    /\ pc' = "done"
    /\ UNCHANGED <<self, roundSizes, tick, page, all_relevant_courts,
                   booked_court, step, driver, bookCalls, sleeps, uncaught>>
    /\ UNCHANGED aux

\* compose_message raises before anything is sent
NotifyComposeError ==
    /\ pc = "notify"
    /\ compose_raises(booked_court) # ""
    /\ Raise(compose_raises(booked_court))
    /\ UNCHANGED <<self, roundSizes, tick, page, all_relevant_courts,
                   booked_court, found_a_court, step, driver, bookCalls,
                   composed, outbox, sleeps>>
    /\ UNCHANGED aux

\* the message is composed and the SMTP session raises
NotifySmtpError ==
    /\ pc = "notify"
    /\ compose_raises(booked_court) = ""
    /\ composed' = Append(composed,
                          compose_message(self, booked_court, all_relevant_courts))
    /\ Raise("SMTPException")
    /\ UNCHANGED <<self, roundSizes, tick, page, all_relevant_courts,
                   booked_court, found_a_court, step, driver, bookCalls,
                   outbox, sleeps>>
    /\ UNCHANGED aux

(***************************************************************************)
(* crawl_zhs: `time.sleep(self.interval)` and the next run_court_search.   *)
(***************************************************************************)
Sleep ==
    /\ pc = "sleep"
    /\ tick < MaxRounds
    /\ sleeps' = Append(sleeps, self.interval)
    /\ tick' = tick + 1
    /\ page' = FirstPage
    /\ all_relevant_courts' = <<>>
    /\ pc' = "crawl"
    /\ UNCHANGED <<self, roundSizes, booked_court, found_a_court, step,
                   driver, bookCalls, composed, outbox, uncaught>>
    /\ UNCHANGED aux

Next ==
    \/ CrawlPage
    \/ CrawlFetchError
    \/ CrawlParseError
    \/ RoundEmpty
    \/ SelectSlot
    \/ SkipBooking
    \/ BookStep
    \/ BookStepFails
    \/ BookKeyError
    \/ Notify
    \/ NotifyComposeError
    \/ NotifySmtpError
    \/ Sleep

Spec == Init /\ [][Next]_vars

(***************************************************************************)
(* Properties.                                                             *)
(***************************************************************************)
\* crawl_zhs is polling: crawling the pages of a round, deciding on the
\* round's result, or sleeping before the next round
Searching == pc \in {"crawl", "decide", "sleep"}

\* crawl_zhs has left the poll for the booking and notification stage
LeftForDone == pc \in {"book", "notify", "done"}

\* the frame's rows, projected on what book_tennis_court is given
Slots(df) ==
    {[date |-> df[i].date, court_number |-> df[i].court,
      start_time |-> df[i].start_time] : i \in DOMAIN df}

\* C1: a failed fetch (transport failure) or a failed parse (the table
\* structure is absent) of one of the pages 2, 3, 4 never ends the poll loop:
\* the failure is reported, the round counts as empty and the next tick
\* retries.  Stated on the end of the run: the process is never ended by the
\* exception of a fetch or of a parse.
C1_FetchOrParseFailureIsAnEmptyRound ==
    ~(pc = "crashed" /\ uncaught \in {"ConnectionError", "AttributeError"})

\* C2: the poll loop leaves Searching in exactly the first round whose
\* relevant set is non-empty.  While it is Searching every finished round was
\* empty, nothing was booked, composed or sent, and every round after the
\* first was preceded by one sleep of the configured interval; once it has
\* left, the current round is the only non-empty one.
C2_LeavesSearchingOnFirstNonEmptyRound ==
    /\ Len(sleeps) = tick - 1
    /\ \A i \in DOMAIN sleeps : sleeps[i] = self.interval
    /\ \A i \in DOMAIN roundSizes : i < tick => roundSizes[i] = 0
    /\ Searching =>
          /\ \A i \in DOMAIN roundSizes : roundSizes[i] = 0
          /\ Len(roundSizes) = IF pc = "sleep" THEN tick ELSE tick - 1
          /\ ~found_a_court
          /\ driver = <<>> /\ bookCalls = <<>>
          /\ composed = <<>> /\ outbox = <<>>
    /\ LeftForDone =>
          /\ Len(roundSizes) = tick
          /\ roundSizes[tick] = Len(all_relevant_courts)
          /\ roundSizes[tick] > 0
    /\ pc = "done" => found_a_court

\* C2 witness: an empty round, the sleep, and a second round that found
\* courts and returned
C2_Witness ==
    /\ pc = "done"
    /\ tick = 2
    /\ roundSizes[1] = 0
    /\ sleeps = <<self.interval>>

\* C3: in one invocation book_tennis_court is called at most once, with one
\* sampled row: the script is opened at most once and its one checkbox click
\* names the court and start time of that call.
C3_AtMostOneBooking ==
    /\ Len(bookCalls) <= 1
    /\ Len(booked_court) <= 1
    /\ Cardinality({i \in DOMAIN driver : driver[i].op = "get"}) <= 1
    /\ Cardinality({i \in DOMAIN driver : driver[i].t # <<>>}) <= 1
    /\ driver # <<>> => Len(bookCalls) = 1
    /\ \A i \in DOMAIN driver :
          driver[i].t # <<>> =>
             /\ driver[i].n = bookCalls[1].court_number
             /\ driver[i].t = bookCalls[1].start_time

\* C3 witness: a second round with several relevant courts, of which one was
\* booked by the complete script
C3_Witness ==
    /\ tick = 2
    /\ Len(all_relevant_courts) >= 2
    /\ Len(bookCalls) = 1
    /\ Len(driver) = Len(ScriptTargets)

\* C4: the selector and the booking script run only with auto-booking
\* enabled and a non-empty relevant set, and the booked slot (date, court,
\* start time) is a row of that round's relevant set; without auto-booking
\* nothing is selected and no driver call is issued.
C4_BookingOnlyWhenEnabledAndFound ==
    /\ (bookCalls # <<>> \/ booked_court # None \/ driver # <<>>) =>
          /\ self.book_court
          /\ all_relevant_courts # <<>>
          /\ Len(booked_court) = 1
          /\ \E i \in DOMAIN all_relevant_courts :
                booked_court[1] = all_relevant_courts[i]
          /\ bookCalls[Len(bookCalls)] \in Slots(booked_court)
    /\ ~self.book_court =>
          bookCalls = <<>> /\ booked_court = None /\ driver = <<>>

\* C4 witness: the third of three relevant rows was selected and the script
\* has started
C4_Witness ==
    /\ Len(all_relevant_courts) = 3
    /\ booked_court = <<all_relevant_courts[3]>>
    /\ booked_court # <<all_relevant_courts[1]>>
    /\ driver # <<>>

\* the booking script ran to its end: a booking occurred
BookingOccurred == Len(driver) = Len(ScriptTargets)

\* C5: the composer's text has a booking summary line (court, date, start
\* time of the booked slot) exactly when a booking occurred in the round, and
\* with or without a booking it returns a text listing every relevant slot
\* of the round with court, start and end.  Stated on the end of the run: if
\* the notification stage was reached, a text was returned, it lists the
\* round's relevant slots, and it has the summary line iff a booking
\* occurred.
C5_ComposerSummaryIffBooked ==
    (pc \in {"done", "crashed"} /\ (BookingOccurred \/ composed # <<>> \/ pc = "done")) =>
        /\ Len(composed) = 1
        /\ composed[1].listing = Listing(all_relevant_courts)
        /\ composed[1].summary =
              IF BookingOccurred
              THEN <<[court |-> bookCalls[1].court_number,
                      date |-> bookCalls[1].date,
                      start_time |-> bookCalls[1].start_time]>>
              ELSE <<>>

\* C6: with a selected court that is no key of the lookup tables the booking
\* attempt fails with the unknown-resource error before any driver call is
\* issued, and the listing of the round's relevant slots is still delivered.
C6_UnknownCourtFailsBeforeAnyCall ==
    (/\ bookCalls # <<>>
     /\ bookCalls[1].court_number \notin DOMAIN COURT_PAGE_MAPPER
     /\ uncaught = "KeyError") =>
        /\ driver = <<>>
        /\ Len(outbox) = 1
        /\ outbox[1].body.listing = Listing(all_relevant_courts)

\* C7: when a driver call of the booking script fails, the booking is not
\* retried: the exception ends the process where it is (reported as the
\* uncaught exception), with the one booking call, the driver calls issued
\* so far, no further poll round and nothing sent.  Stated on every state in
\* which the script has stopped short of its end.
C7_FailedScriptEndsTheRun ==
    (bookCalls # <<>> /\ pc # "book" /\ ~BookingOccurred) =>
        /\ pc = "crashed"
        /\ uncaught \in {"WebDriverException", "KeyError"}
        /\ Len(bookCalls) = 1
        /\ Len(driver) = step - 1
        /\ Len(roundSizes) = tick
        /\ Len(sleeps) = tick - 1
        /\ composed = <<>> /\ outbox = <<>>
        /\ ~found_a_court

\* C7 witness: the click on the court's "Buchung" button failed after the
\* checkbox was clicked
C7_Witness ==
    /\ pc = "crashed"
    /\ uncaught = "WebDriverException"
    /\ Len(driver) = 8
    /\ driver[8].t = bookCalls[1].start_time

\* the order of the script as the claim gives it, between opening the site
\* and closing the browser
C8_Order ==
    <<"reservations.php",                  \* open the site
      "id=login_block",                    \* open login panel
      "id=login", "id=password",           \* enter credentials
      "xpath=respond1/submit",             \* submit login
      "xpath=button_apply",                \* dismiss the consent interstitial
      "xpath=pager-block/div[n]",          \* navigate to the court's group page
      "id=order_el_{court}_{start}",       \* click the checkbox (court, start)
      "xpath=table/td[n]/form/div/input",  \* group-row-positioned confirm
      "xpath=article/div/form/div/input",  \* final global confirmation
      "quit">>

\* C8: for every court and start time the driver calls are issued in the
\* one fixed order, one at a time, each after the one before it completed:
\* what has been issued is always a prefix of that order, and the checkbox
\* click names the call's court and start time.
C8_ScriptOrder ==
    /\ Len(driver) <= Len(C8_Order)
    /\ \A i \in DOMAIN driver : driver[i].target = C8_Order[i]
    /\ pc = "book" => step = Len(driver) + 1
    /\ \A i \in DOMAIN driver :
          C8_Order[i] = "id=order_el_{court}_{start}" =>
             /\ driver[i].n = bookCalls[1].court_number
             /\ driver[i].t = bookCalls[1].start_time

\* C8 witness: the script ran to its end for court 14
C8_Witness ==
    /\ Len(driver) = 11
    /\ driver[11].op = "quit"
    /\ bookCalls[1].court_number = 14

\* the 1-based position of court r among the courts of its page
C9_Ordinal(r) ==
    Cardinality({q \in DOMAIN COURT_PAGE_MAPPER :
                    COURT_PAGE_MAPPER[q] = COURT_PAGE_MAPPER[r] /\ q <= r})

\* the argument n of the script's call on `target` for court r
C9_ScriptArg(target, r) ==
    LET k == CHOOSE j \in DOMAIN ScriptTargets : ScriptTargets[j] = target
    IN  book_tennis_court(k, "2021-07-27", r, Clock(8, 30)).n

\* C9: for every court r of the lookup tables the script navigates to page
\* COURT_PAGE_MAPPER[r] and clicks the confirm button MAP_COURT_TO_XPATH[r],
\* which is r's 1-based ordinal within its group, over three groups; for
\* court 7 these are page 3 and button 2.  The calls the driver was given
\* carry these two values for the booked court.
C9_LookupTables ==
    /\ DOMAIN MAP_COURT_TO_XPATH = DOMAIN COURT_PAGE_MAPPER
    /\ Cardinality({COURT_PAGE_MAPPER[r] : r \in DOMAIN COURT_PAGE_MAPPER}) = 3
    /\ \A r \in DOMAIN COURT_PAGE_MAPPER :
          /\ MAP_COURT_TO_XPATH[r] = C9_Ordinal(r)
          /\ C9_ScriptArg("xpath=pager-block/div[n]", r) = COURT_PAGE_MAPPER[r]
          /\ C9_ScriptArg("xpath=table/td[n]/form/div/input", r) = C9_Ordinal(r)
    /\ COURT_PAGE_MAPPER[7] = 3
    /\ MAP_COURT_TO_XPATH[7] = 2
    /\ \A i \in DOMAIN driver :
          /\ driver[i].target = "xpath=pager-block/div[n]" =>
                driver[i].n = COURT_PAGE_MAPPER[bookCalls[1].court_number]
          /\ driver[i].target = "xpath=table/td[n]/form/div/input" =>
                driver[i].n = C9_Ordinal(bookCalls[1].court_number)

\* C9 witness: court 7 was booked through page 3 and confirm button 2
C9_Witness ==
    /\ bookCalls # <<>>
    /\ bookCalls[1].court_number = 7
    /\ \E i, j \in DOMAIN driver :
          /\ driver[i].target = "xpath=pager-block/div[n]" /\ driver[i].n = 3
          /\ driver[j].target = "xpath=table/td[n]/form/div/input" /\ driver[j].n = 2

\* minutes after midnight of the clock string "HH:MM"
C10_Minutes(x) == 60 * (10 * x[1] + x[2]) + 10 * x[3] + x[4]

\* C10: every slot the window filter keeps starts at or after the requested
\* start hour and ends at or before the requested end hour, slots that start
\* on a half hour included.
C10_KeptSlotsLieInTheWindow ==
    \A i \in DOMAIN all_relevant_courts :
        /\ C10_Minutes(all_relevant_courts[i].start_time) >= 60 * self.start_hour
        /\ C10_Minutes(all_relevant_courts[i].end_time) <= 60 * self.end_hour

(***************************************************************************)
(* One page: filter_all_available_courts and filter_relevant_courts        *)
(* applied to one document, for every document of a bounded shape.         *)
(***************************************************************************)
\* half-hour cells in a court's row of the documents of this specification
PageCells == 4

\* minutes after midnight at which the first cell of these rows starts
PageOrigin == 18 * 60

\* the label of the k-th cell; its scraped end is half an hour after its
\* start, or `skew` minutes later than that
PageCellLabel(k, skew) ==
    LET s == PageOrigin + 30 * (k - 1)
        e == s + 30 + skew
    IN  <<Clock(s \div 60, s % 60), Clock((e \div 60) % 24, e % 60)>>

\* the court tables: a header, free and taken cells, true or skewed end labels
PageTables ==
    {[court |-> c,
      cells |-> [k \in 1..PageCells |->
                    [avail |-> a[k], label |-> PageCellLabel(k, skew)]]] :
        c \in {7, 14}, a \in [1..PageCells -> BOOLEAN], skew \in {0, 60}}

\* the documents: no, one or two court tables (the same header twice
\* included)
PageDocuments ==
    {[structure |-> TRUE, tables |-> ts] :
        ts \in {<<>>} \cup {<<t>> : t \in PageTables}
                      \cup {<<t, u>> : t \in PageTables, u \in PageTables}}

\* the Zhs objects: every window of the hours the cells cover
PageConfigs ==
    {[date |-> "2021-07-27", start_hour |-> w[1], end_hour |-> w[2],
      receiver_email |-> "hi@bye.com", interval |-> DefaultInterval,
      book_court |-> FALSE] :
        w \in {<<18, 19>>, <<19, 20>>, <<18, 20>>}}

InitPage ==
    /\ self \in PageConfigs
    /\ content \in PageDocuments
    /\ pc = "fetched"
    /\ tick = 1
    /\ page = FirstPage
    /\ all_relevant_courts = <<>>
    /\ booked_court = None
    /\ found_a_court = FALSE
    /\ step = 1
    /\ driver = <<>>
    /\ bookCalls = <<>>
    /\ composed = <<>>
    /\ outbox = <<>>
    /\ sleeps = <<>>
    /\ roundSizes = <<>>
    /\ uncaught = ""
    /\ available_courts = <<>>
    /\ relevant_courts = <<>>
    /\ roundRows = <<>>
    /\ seenCourts = {}
    /\ crossPage = FALSE
    /\ samePage = FALSE
    /\ cli = <<>>

\* available_courts = self.filter_all_available_courts(page_content=content)
PageReconcile ==
    /\ pc = "fetched"
    /\ available_courts' = filter_all_available_courts(content)
    /\ pc' = "reconciled"
    /\ UNCHANGED <<self, tick, page, all_relevant_courts, booked_court,
                   found_a_court, step, driver, bookCalls, composed, outbox,
                   sleeps, roundSizes, uncaught>>
    /\ UNCHANGED <<content, relevant_courts, roundRows, seenCourts,
                   crossPage, samePage, cli>>

\* relevant_courts = self.filter_relevant_courts(available_courts=...); the
\* method reads available_courts and leaves it as it was
PageFilter ==
    /\ pc = "reconciled"
    /\ relevant_courts' =
          filter_relevant_courts(self.date, self.start_hour, self.end_hour,
                                 available_courts)
    /\ pc' = "filtered"
    /\ UNCHANGED <<self, tick, page, all_relevant_courts, booked_court,
                   found_a_court, step, driver, bookCalls, composed, outbox,
                   sleeps, roundSizes, uncaught>>
    /\ UNCHANGED <<content, available_courts, roundRows, seenCourts,
                   crossPage, samePage, cli>>

NextPage ==
    \/ PageReconcile
    \/ PageFilter

SpecPage == InitPage /\ [][NextPage]_vars

\* the hour component of a clock string
C11_Hour(x) == C10_Minutes(x) \div 60

\* the slots handed to the window filter, in the order of the dict
C11_Input == ConstructDf(self.date, available_courts)

\* the positions of the input slots whose hours lie in the window
C11_Kept ==
    {i \in DOMAIN C11_Input :
        /\ C11_Hour(C11_Input[i].start_time) >= self.start_hour
        /\ C11_Hour(C11_Input[i].end_time) <= self.end_hour}

\* the j-th smallest position of C11_Kept
C11_Nth(j) ==
    CHOOSE i \in C11_Kept : Cardinality({k \in C11_Kept : k < i}) = j - 1

\* C11: the window filter keeps a slot if and only if the hour of its start
\* is at least the start hour and the hour of its end is at most the end
\* hour; the kept slots are in their input order and the input is left as
\* the reconciler returned it.
C11_WindowFilterIsAPurePredicate ==
    pc = "filtered" =>
        /\ self.start_hour < self.end_hour
        /\ Len(relevant_courts) = Cardinality(C11_Kept)
        /\ \A j \in DOMAIN relevant_courts :
               relevant_courts[j] = C11_Input[C11_Nth(j)]
        /\ available_courts = filter_all_available_courts(content)

\* a filtered page on which two slots were kept and one was dropped
C11_Witness ==
    /\ pc = "filtered"
    /\ Len(relevant_courts) >= 2
    /\ Len(relevant_courts) < Len(C11_Input)

\* the labels the reconciler is given, per court: the dict `result`
C12_Labels == ScrapeTables(content.tables, <<>>)

\* the hour slots the reconciler returned for a court, none if the court is
\* not a key of its result
C12_Emitted(court) ==
    IF \E i \in DOMAIN available_courts : available_courts[i][1] = court
    THEN available_courts[CHOOSE i \in DOMAIN available_courts :
                              available_courts[i][1] = court][2]
    ELSE <<>>

\* ceil(k / 2)
C12_Ceil(k) == CHOOSE n \in 0..k : 2 * n >= k /\ 2 * (n - 1) < k

\* C12: for every court with k available half-hour cells the reconciler
\* emits exactly ceil(k/2) hour slots, the j-th of them starting at the start
\* label of the court's cell of 0-based index 2(j-1) and ending one hour
\* after that start, whatever end the cell's label shows; it emits slots for
\* no other court.
C12_OneHourSlotPerEvenCell ==
    pc \in {"reconciled", "filtered"} =>
        /\ \A i \in DOMAIN C12_Labels :
               LET labels == C12_Labels[i][2]
                   out == C12_Emitted(C12_Labels[i][1])
               IN  /\ Len(out) = C12_Ceil(Len(labels))
                   /\ \A j \in DOMAIN out :
                          /\ out[j][1] = labels[2 * j - 1][1]
                          /\ C10_Minutes(out[j][2]) =
                                 (C10_Minutes(out[j][1]) + 60) % (24 * 60)
        /\ \A i \in DOMAIN available_courts :
               \E n \in DOMAIN C12_Labels :
                   C12_Labels[n][1] = available_courts[i][1]

\* a court with three available cells whose labels show an end other than
\* start + 1 hour, reconciled into two hour slots
C12_Witness ==
    /\ pc = "reconciled"
    /\ \E i \in DOMAIN C12_Labels :
           LET labels == C12_Labels[i][2]
               out == C12_Emitted(C12_Labels[i][1])
           IN  /\ Len(labels) = 3
               /\ Len(out) = 2
               /\ labels[1][2] # out[1][2]
               /\ labels[3][2] # out[2][2]

\* C14: after one reconciliation pass the hour slots of every court are in
\* strictly increasing order of start time and no slot starts before the
\* slot listed before it has ended (the cells of a court's row are in
\* document order, with increasing start times on the half-hour grid).
C14_SortedAndNonOverlapping ==
    pc \in {"reconciled", "filtered"} =>
        \A n \in DOMAIN available_courts :
            LET out == available_courts[n][2]
            IN  \A i \in DOMAIN out : \A j \in DOMAIN out :
                    i < j =>
                        /\ C10_Minutes(out[i][1]) < C10_Minutes(out[j][1])
                        /\ C10_Minutes(out[i][2]) <= C10_Minutes(out[j][1])

\* a court whose available cells are not all adjacent, reconciled into two
\* hour slots with a gap between them
C14_Witness ==
    /\ pc = "reconciled"
    /\ \E n \in DOMAIN available_courts :
           LET out == available_courts[n][2]
           IN  /\ Len(out) = 2
               /\ C10_Minutes(out[1][2]) < C10_Minutes(out[2][1])

(***************************************************************************)
(* The command line: the --date callback verify_date of the two modules    *)
(* that define the command, and the body of cli() behind it.               *)
(***************************************************************************)
\* days, counted from an arbitrary day 0, on which the program is started
DaySpan == 2

\* max_date = today + relativedelta(days=8)
MaxDaysAhead == 8

SecondsPerDay == 24 * 60 * 60

\* seconds after midnight at which the program is started
TimesOfDay == {0, 1, 12 * 60 * 60, SecondsPerDay - 1}

\* the timestamp of midnight of a day
Midnight(day) == day * SecondsPerDay

\* the values of --date: a well-formed date (a day number) or a text that
\* strptime(value, "%Y-%m-%d") refuses with ValueError
DateValues ==
    {[wellFormed |-> TRUE, day |-> d] : d \in 0..(DaySpan + MaxDaysAhead + 2)}
        \cup {[wellFormed |-> FALSE, day |-> 0]}

\* verify_date of src/zhs/zhs.py: today = datetime.datetime.today() is the
\* moment of the call, time of day included
zhs_verify_date(today, timeOfDay, value) ==
    IF ~value.wellFormed THEN "BadParameter"
    ELSE LET input_date == Midnight(value.day)
             now == Midnight(today) + timeOfDay
             max_date == now + MaxDaysAhead * SecondsPerDay
         IN  IF input_date < now THEN "BadParameter"
             ELSE IF input_date > max_date THEN "BadParameter"
             ELSE "value"

\* verify_date of src/src/cli.py: today = pd.Timestamp(datetime.date.today())
\* is midnight of the day of the call
cli_verify_date(today, timeOfDay, value) ==
    IF ~value.wellFormed THEN "BadParameter"
    ELSE LET input_date == Midnight(value.day)
             today_ts == Midnight(today)
             max_date == today_ts + MaxDaysAhead * SecondsPerDay
         IN  IF input_date < today_ts THEN "BadParameter"
             ELSE IF input_date > max_date THEN "BadParameter"
             ELSE "value"

\* the callback of the command that was started
verify_date(c) ==
    IF c.module = "zhs/zhs.py"
    THEN zhs_verify_date(c.today, c.timeOfDay, c.value)
    ELSE cli_verify_date(c.today, c.timeOfDay, c.value)

InitCli ==
    /\ cli \in [module : {"zhs/zhs.py", "src/cli.py"},
                today : 1..DaySpan,
                timeOfDay : TimesOfDay,
                value : DateValues]
    /\ pc = "parsing"
    /\ self = None
    /\ tick = 1
    /\ page = FirstPage
    /\ all_relevant_courts = <<>>
    /\ booked_court = None
    /\ found_a_court = FALSE
    /\ step = 1
    /\ driver = <<>>
    /\ bookCalls = <<>>
    /\ composed = <<>>
    /\ outbox = <<>>
    /\ sleeps = <<>>
    /\ roundSizes = <<>>
    /\ uncaught = ""
    /\ content = <<>>
    /\ available_courts = <<>>
    /\ relevant_courts = <<>>
    /\ roundRows = <<>>
    /\ seenCourts = {}
    /\ crossPage = FALSE
    /\ samePage = FALSE

\* the callback raises click.BadParameter: click prints the usage error and
\* exits with code 2, the body of cli() does not run
CliReject ==
    /\ pc = "parsing"
    /\ verify_date(cli) = "BadParameter"
    /\ pc' = "rejected"
    /\ uncaught' = "BadParameter"
    /\ UNCHANGED <<self, tick, page, all_relevant_courts, booked_court,
                   found_a_court, step, driver, bookCalls, composed, outbox,
                   sleeps, roundSizes>>
    /\ UNCHANGED aux

\* the callback returns the value: cli() builds the Zhs object
CliAccept ==
    /\ pc = "parsing"
    /\ verify_date(cli) = "value"
    /\ self' = [date |-> cli.value.day, start_hour |-> 8, end_hour |-> 20,
                receiver_email |-> "hi@bye.com", interval |-> DefaultInterval,
                book_court |-> FALSE]
    /\ pc' = "built"
    /\ UNCHANGED <<tick, page, all_relevant_courts, booked_court,
                   found_a_court, step, driver, bookCalls, composed, outbox,
                   sleeps, roundSizes, uncaught>>
    /\ UNCHANGED aux

NextCli ==
    \/ CliReject
    \/ CliAccept

SpecCli == InitCli /\ [][NextCli]_vars

\* C13: a well-formed date is accepted if and only if it is today's date or
\* one of the 8 days after it, at whatever time of day the program is
\* started; a rejected date leaves no Zhs object built.
C13_TodayUpToEightDaysAhead ==
    /\ pc = "rejected" => self = None
    /\ (pc \in {"rejected", "built"} /\ cli.value.wellFormed) =>
           (pc = "built" <=>
               /\ cli.value.day >= cli.today
               /\ cli.value.day <= cli.today + MaxDaysAhead)

(***************************************************************************)
(* The rounds of run_court_search over documents with up to two court      *)
(* tables, whose headers may repeat on a page and across the pages.        *)
(***************************************************************************)
\* minutes after midnight at which the first cell of these rows starts
RoundOrigin == 18 * 60 + 30

\* the label of the k-th half-hour cell of a row
RoundCellLabel(k) ==
    LET s == RoundOrigin + 30 * (k - 1)
        e == s + 30
    IN  <<Clock(s \div 60, s % 60), Clock((e \div 60) % 24, e % 60)>>

\* a court's table: its header and its row of free and taken cells
RoundTables ==
    {[court |-> c,
      cells |-> [k \in 1..GridCells |->
                    [avail |-> a[k], label |-> RoundCellLabel(k)]]] :
        c \in {7, 14}, a \in [1..GridCells -> BOOLEAN]}

\* the documents: no, one or two court tables, listed by ascending header,
\* the same header twice included
RoundDocuments ==
    {[structure |-> TRUE, tables |-> ts] :
        ts \in {<<>>} \cup {<<t>> : t \in RoundTables}
                      \cup {<<p[1], p[2]>> :
                               p \in {q \in RoundTables \X RoundTables :
                                         q[1].court <= q[2].court}}}

\* the Zhs objects: a window that keeps the first hour slot of the rows
\* and one that keeps the second
RoundConfigs ==
    {[date |-> "2021-07-27", start_hour |-> w[1], end_hour |-> w[2],
      receiver_email |-> "hi@bye.com", interval |-> DefaultInterval,
      book_court |-> FALSE] :
        w \in {<<18, 19>>, <<19, 20>>}}

\* the court headers of a document
Headers(document) ==
    {document.tables[i].court : i \in DOMAIN document.tables}

\* whether two tables of a document carry the same header
RepeatsHeader(document) ==
    \E i \in DOMAIN document.tables : \E j \in DOMAIN document.tables :
        i # j /\ document.tables[i].court = document.tables[j].court

InitRound ==
    /\ self \in RoundConfigs
    /\ pc = "crawl"
    /\ tick = 1
    /\ page = FirstPage
    /\ all_relevant_courts = <<>>
    /\ booked_court = None
    /\ found_a_court = FALSE
    /\ step = 1
    /\ driver = <<>>
    /\ bookCalls = <<>>
    /\ composed = <<>>
    /\ outbox = <<>>
    /\ sleeps = <<>>
    /\ roundSizes = <<>>
    /\ uncaught = ""
    /\ AuxIdle

\* one pass of the page loop: fetch, reconcile, filter, concat
RoundPage ==
    /\ pc = "crawl"
    /\ \E document \in RoundDocuments :
          LET hour_slots == filter_all_available_courts(document)
          IN  /\ all_relevant_courts' =
                    concat(all_relevant_courts,
                           filter_relevant_courts(self.date, self.start_hour,
                                                  self.end_hour, hour_slots))
              /\ roundRows' = roundRows \o ConstructDf(self.date, hour_slots)
              /\ seenCourts' = seenCourts \cup Headers(document)
              /\ crossPage' =
                    (crossPage \/ Headers(document) \cap seenCourts # {})
              /\ samePage' = (samePage \/ RepeatsHeader(document))
    /\ page' = page + 1
    /\ pc' = IF page' = PageEnd THEN "decide" ELSE "crawl"
    /\ UNCHANGED <<self, roundSizes, tick, booked_court, found_a_court,
                   step, driver, bookCalls, composed, outbox, sleeps,
                   uncaught>>
    /\ UNCHANGED <<content, available_courts, relevant_courts, cli>>

\* `if all_relevant_courts.shape[0]:` is true: the round's frame goes to the
\* booking and the notification
RoundFound ==
    /\ pc = "decide"
    /\ FoundCourts(all_relevant_courts)
    /\ found_a_court' = TRUE
    /\ pc' = "found"
    /\ roundSizes' = Append(roundSizes, Len(all_relevant_courts))
    /\ UNCHANGED <<self, tick, page, all_relevant_courts, booked_court,
                   step, driver, bookCalls, composed, outbox, sleeps,
                   uncaught>>
    /\ UNCHANGED aux

\* no rows: run_court_search returns False
RoundNothing ==
    /\ pc = "decide"
    /\ ~FoundCourts(all_relevant_courts)
    /\ found_a_court' = FALSE
    /\ pc' = "sleep"
    /\ roundSizes' = Append(roundSizes, Len(all_relevant_courts))
    /\ UNCHANGED <<self, tick, page, all_relevant_courts, booked_court,
                   step, driver, bookCalls, composed, outbox, sleeps,
                   uncaught>>
    /\ UNCHANGED aux

\* time.sleep(self.interval), then the next call of run_court_search starts
\* with all_relevant_courts = pd.DataFrame()
RoundSleep ==
    /\ pc = "sleep"
    /\ tick < MaxRounds
    /\ sleeps' = Append(sleeps, self.interval)
    /\ tick' = tick + 1
    /\ page' = FirstPage
    /\ all_relevant_courts' = <<>>
    /\ roundRows' = <<>>
    /\ seenCourts' = {}
    /\ crossPage' = FALSE
    /\ samePage' = FALSE
    /\ pc' = "crawl"
    /\ UNCHANGED <<self, roundSizes, booked_court, found_a_court, step,
                   driver, bookCalls, composed, outbox, uncaught>>
    /\ UNCHANGED <<content, available_courts, relevant_courts, cli>>

NextRound ==
    \/ RoundPage
    \/ RoundFound
    \/ RoundNothing
    \/ RoundSleep

SpecRound == InitRound /\ [][NextRound]_vars

\* no two records of a frame have the same court and the same start time
C15_Distinct(df) ==
    \A i \in DOMAIN df : \A j \in DOMAIN df :
        (i # j) => ~(/\ df[i].court = df[j].court
                     /\ df[i].start_time = df[j].start_time)

\* C15 as claimed: whatever the pages show, the relevant set accumulated in
\* a round holds no two records with the same court and start time.
C15_NoTwoRecordsForAnyPages == C15_Distinct(all_relevant_courts)

\* C15: the relevant set accumulated in a round holds no two records with
\* the same court and start time, provided no court header is shown on more
\* than one of the round's pages; a header shown twice on one page does not
\* break this.
C15_NoTwoRecordsForDisjointPages ==
    ~crossPage => C15_Distinct(all_relevant_courts)

\* a finished round in which one page showed a header twice, no header was
\* on two pages, and two records were found
C15_Witness ==
    /\ pc = "decide"
    /\ samePage
    /\ ~crossPage
    /\ Len(all_relevant_courts) >= 2

\* the window filter applied to a sequence of rows
C16_Filter(rows) ==
    SelectSeq(rows, LAMBDA r :
        /\ C11_Hour(r.start_time) >= self.start_hour
        /\ C11_Hour(r.end_time) <= self.end_hour)

\* C16: at every point of a round, the frame accumulated from the filtered
\* pages equals the window filter applied once to the hour slots of the
\* round's pages so far, and every round starts with an empty frame.
C16_FilterThenConcatIsConcatThenFilter ==
    /\ all_relevant_courts = C16_Filter(roundRows)
    /\ (pc = "crawl" /\ page = FirstPage) => all_relevant_courts = <<>>

\* a second round, finished, whose pages gave three or more hour slots, two
\* or more of them kept and one or more dropped
C16_Witness ==
    /\ tick = 2
    /\ pc = "decide"
    /\ Len(roundRows) >= 3
    /\ Len(all_relevant_courts) >= 2
    /\ Len(all_relevant_courts) < Len(roundRows)

=============================================================================
